---- MODULE Spec2Model ----
(***************************************************************************)
(* robot_trajectory::RobotTrajectory (moveit_core/robot_trajectory).       *)
(*                                                                         *)
(* A trajectory keeps two deques: waypoints_, of shared pointers to        *)
(* RobotState objects, and duration_from_previous_, of doubles.  The heap  *)
(* of RobotState objects is modelled explicitly so that copying a waypoint *)
(* by pointer and copying it by value are different things.                *)
(***************************************************************************)
EXTENDS Integers, Sequences, FiniteSets, TLC

\* ---- bounds of the model -------------------------------------------------
MaxLen == 2          \* longest deque any operation is allowed to build
MaxDur == 1          \* durations are drawn from 0..MaxDur
MaxQ   == 1          \* variable values of a RobotState are drawn from 0..MaxQ
MaxObj == 4          \* RobotState objects that can exist at the same time

Traj      == {"a", "b"}                 \* the RobotTrajectory objects of the program
Addr      == 1..MaxObj                  \* addresses of RobotState objects
Durations == 0..MaxDur
Indices   == 0..MaxLen                  \* std::size_t arguments

\* A RobotState is represented by its variable values.  The transforms that
\* RobotState::update() recomputes are a function of these values and are not
\* kept in the model, so the calls state->update() leave the model state as it is.
RobotState == 0..MaxQ
\* Content of an address that holds no object.
NoState == -1

VARIABLES
  constructed,              \* the trajectories that currently exist
  waypoints_,               \* [Traj -> Seq(Addr)]   std::deque<RobotStatePtr>
  duration_from_previous_,  \* [Traj -> Seq(Durations)] std::deque<double>
  heap,                     \* [Addr -> RobotState \cup {NoState}]
  last                      \* the copy that produced the current state, if one did

vars == <<constructed, waypoints_, duration_from_previous_, heap, last>>

\* ---- helpers ---------------------------------------------------------------
\* a copy of trajectory other into trajectory t
Copy(op, t, other) == [op |-> op, t |-> t, other |-> other]
\* any call that is not a copy
NoCopy == [op |-> "none", t |-> "a", other |-> "a"]

\* deque::push_front
PushFront(s, e) == <<e>> \o s

\* deque::insert(begin() + index, e), index counted from 0, index <= size
InsertAt(s, index, e) ==
  SubSeq(s, 1, index) \o <<e>> \o SubSeq(s, index + 1, Len(s))

\* deque::resize(n, fill) for n >= size
Resize(s, n, fill) == s \o [k \in 1..(n - Len(s)) |-> fill]

Range(s) == {s[k] : k \in 1..Len(s)}

\* shared_ptr ownership: an object no waypoint points to any more is destroyed
Release(h, wps) ==
  [a \in Addr |-> IF \E t \in Traj : a \in Range(wps[t]) THEN h[a] ELSE NoState]

\* the model has room for n more objects
HasFree(h, n) == Cardinality({a \in Addr : h[a] = NoState}) >= n

\* std::make_shared<RobotState>: the address of a new object
Fresh(h) == CHOOSE a \in Addr : h[a] = NoState /\ \A b \in Addr : h[b] = NoState => a <= b

\* Copy of every waypoint by value: one new object per waypoint, in order.
\* Yields the heap with the copies and the sequence of their addresses.
RECURSIVE CloneAll(_, _)
CloneAll(h, wp) ==
  IF wp = <<>> THEN [heap |-> h, wps |-> <<>>]
  ELSE LET p    == Fresh(h)
           rest == CloneAll([h EXCEPT ![p] = h[Head(wp)]], Tail(wp))
       IN  [heap |-> rest.heap, wps |-> <<p>> \o rest.wps]

\* ---- accessors ---------------------------------------------------------------
getWayPointCount(t) == Len(waypoints_[t])

\* the assertion of size(), begin() and end()
SizeAssertion(t) == Len(waypoints_[t]) = Len(duration_from_previous_[t])

\* index is a std::size_t, counted from 0
getWayPointPtr(t, index) == waypoints_[t][index + 1]

getWayPoint(t, index) == heap[waypoints_[t][index + 1]]

getWayPointDurationFromPrevious(t, index) ==
  IF Len(duration_from_previous_[t]) > index
    THEN duration_from_previous_[t][index + 1]
    ELSE 0

\* the objects held by some trajectory, which a caller can get a pointer to
Stored == UNION {Range(waypoints_[t]) : t \in Traj}

\* ---- initial state -------------------------------------------------------------
\* One trajectory has been constructed (explicit RobotTrajectory(robot_model)).
Init ==
  /\ constructed = {"a"}
  /\ waypoints_ = [t \in Traj |-> <<>>]
  /\ duration_from_previous_ = [t \in Traj |-> <<>>]
  /\ heap = [a \in Addr |-> NoState]
  /\ last = NoCopy

\* ---- operations ----------------------------------------------------------------
\* explicit RobotTrajectory(robot_model): a new, empty trajectory
Construct(t) ==
  /\ t \notin constructed
  /\ constructed' = constructed \cup {t}
  /\ waypoints_' = [waypoints_ EXCEPT ![t] = <<>>]
  /\ duration_from_previous_' = [duration_from_previous_ EXCEPT ![t] = <<>>]
  /\ heap' = heap
  /\ last' = NoCopy

\* implicit destructor: the deques go, and with them the pointers they held
Destroy(t) ==
  /\ t \in constructed
  /\ constructed' = constructed \ {t}
  /\ waypoints_' = [waypoints_ EXCEPT ![t] = <<>>]
  /\ duration_from_previous_' = [duration_from_previous_ EXCEPT ![t] = <<>>]
  /\ heap' = Release(heap, waypoints_')
  /\ last' = NoCopy

\* addSuffixWayPoint(const RobotState& state, double dt)
addSuffixWayPoint(t, state, dt) ==
  /\ t \in constructed
  /\ Len(duration_from_previous_[t]) < MaxLen
  /\ HasFree(heap, 1)
  /\ LET p == Fresh(heap) IN
       /\ heap' = [heap EXCEPT ![p] = state]
       /\ waypoints_' = [waypoints_ EXCEPT ![t] = Append(@, p)]
  /\ duration_from_previous_' = [duration_from_previous_ EXCEPT ![t] = Append(@, dt)]
  /\ constructed' = constructed
  /\ last' = NoCopy

\* addSuffixWayPoint(const RobotStatePtr& state, double dt)
addSuffixWayPointPtr(t, state, dt) ==
  /\ t \in constructed
  /\ state \in Stored
  /\ Len(duration_from_previous_[t]) < MaxLen
  /\ heap' = heap
  /\ waypoints_' = [waypoints_ EXCEPT ![t] = Append(@, state)]
  /\ duration_from_previous_' = [duration_from_previous_ EXCEPT ![t] = Append(@, dt)]
  /\ constructed' = constructed
  /\ last' = NoCopy

\* addPrefixWayPoint(const RobotState& state, double dt)
addPrefixWayPoint(t, state, dt) ==
  /\ t \in constructed
  /\ Len(duration_from_previous_[t]) < MaxLen
  /\ HasFree(heap, 1)
  /\ LET p == Fresh(heap) IN
       /\ heap' = [heap EXCEPT ![p] = state]
       /\ waypoints_' = [waypoints_ EXCEPT ![t] = PushFront(@, p)]
  /\ duration_from_previous_' = [duration_from_previous_ EXCEPT ![t] = PushFront(@, dt)]
  /\ constructed' = constructed
  /\ last' = NoCopy

\* addPrefixWayPoint(const RobotStatePtr& state, double dt)
addPrefixWayPointPtr(t, state, dt) ==
  /\ t \in constructed
  /\ state \in Stored
  /\ Len(duration_from_previous_[t]) < MaxLen
  /\ heap' = heap
  /\ waypoints_' = [waypoints_ EXCEPT ![t] = PushFront(@, state)]
  /\ duration_from_previous_' = [duration_from_previous_ EXCEPT ![t] = PushFront(@, dt)]
  /\ constructed' = constructed
  /\ last' = NoCopy

\* insertWayPoint(std::size_t index, const RobotState& state, double dt)
insertWayPoint(t, index, state, dt) ==
  /\ t \in constructed
  /\ index <= Len(waypoints_[t])
  /\ Len(duration_from_previous_[t]) < MaxLen
  /\ HasFree(heap, 1)
  /\ LET p == Fresh(heap) IN
       /\ heap' = [heap EXCEPT ![p] = state]
       /\ waypoints_' = [waypoints_ EXCEPT ![t] = InsertAt(@, index, p)]
  /\ duration_from_previous_' = [duration_from_previous_ EXCEPT ![t] = InsertAt(@, index, dt)]
  /\ constructed' = constructed
  /\ last' = NoCopy

\* insertWayPoint(std::size_t index, const RobotStatePtr& state, double dt)
insertWayPointPtr(t, index, state, dt) ==
  /\ t \in constructed
  /\ state \in Stored
  /\ index <= Len(waypoints_[t])
  /\ Len(duration_from_previous_[t]) < MaxLen
  /\ heap' = heap
  /\ waypoints_' = [waypoints_ EXCEPT ![t] = InsertAt(@, index, state)]
  /\ duration_from_previous_' = [duration_from_previous_ EXCEPT ![t] = InsertAt(@, index, dt)]
  /\ constructed' = constructed
  /\ last' = NoCopy

\* setWayPointDurationFromPrevious(std::size_t index, double value)
setWayPointDurationFromPrevious(t, index, value) ==
  /\ t \in constructed
  /\ index < MaxLen
  /\ LET d == duration_from_previous_[t]
         r == IF Len(d) <= index THEN Resize(d, index + 1, 0) ELSE d
     IN  duration_from_previous_' =
           [duration_from_previous_ EXCEPT ![t] = [r EXCEPT ![index + 1] = value]]
  /\ UNCHANGED <<constructed, waypoints_, heap>>
  /\ last' = NoCopy

\* clear()
clear(t) ==
  /\ t \in constructed
  /\ waypoints_' = [waypoints_ EXCEPT ![t] = <<>>]
  /\ duration_from_previous_' = [duration_from_previous_ EXCEPT ![t] = <<>>]
  /\ heap' = Release(heap, waypoints_')
  /\ constructed' = constructed
  /\ last' = NoCopy

\* operator= as it would be if it copied the waypoints by value
OperatorAssign_ByValue(t, other) ==
  /\ t \in constructed
  /\ other \in constructed
  /\ duration_from_previous_' =
       [duration_from_previous_ EXCEPT ![t] = duration_from_previous_[other]]
  /\ IF t = other
       THEN UNCHANGED <<waypoints_, heap>>
       ELSE LET h0 == Release(heap, [waypoints_ EXCEPT ![t] = <<>>]) IN
              /\ HasFree(h0, Len(waypoints_[other]))
              /\ LET c == CloneAll(h0, waypoints_[other]) IN
                   /\ heap' = c.heap
                   /\ waypoints_' = [waypoints_ EXCEPT ![t] = c.wps]
  /\ constructed' = constructed
  /\ last' = Copy("operator=", t, other)

\* operator=(const RobotTrajectory&) = default: member-wise copy of the deques,
\* so the pointers are copied, not the objects
OperatorAssign(t, other) ==
  /\ t \in constructed
  /\ other \in constructed
  /\ waypoints_' = [waypoints_ EXCEPT ![t] = waypoints_[other]]
  /\ duration_from_previous_' =
       [duration_from_previous_ EXCEPT ![t] = duration_from_previous_[other]]
  /\ heap' = Release(heap, waypoints_')
  /\ constructed' = constructed
  /\ last' = Copy("operator=", t, other)

\* the copy constructor as it would be if it ignored deepcopy
CopyConstruct_ByPointer(t, other, deepcopy) ==
  /\ t \notin constructed
  /\ other \in constructed
  /\ deepcopy => HasFree(heap, Len(waypoints_[other]))
  /\ constructed' = constructed \cup {t}
  /\ duration_from_previous_' =
       [duration_from_previous_ EXCEPT ![t] = duration_from_previous_[other]]
  /\ heap' = heap
  /\ waypoints_' = [waypoints_ EXCEPT ![t] = waypoints_[other]]
  /\ last' = Copy(IF deepcopy THEN "RobotTrajectory(other, true)"
                              ELSE "RobotTrajectory(other, false)", t, other)

\* RobotTrajectory(const RobotTrajectory& other, bool deepcopy):
\* waypoints by value (deepcopy) or by pointer (otherwise)
CopyConstruct(t, other, deepcopy) ==
  /\ t \notin constructed
  /\ other \in constructed
  /\ deepcopy => HasFree(heap, Len(waypoints_[other]))
  /\ constructed' = constructed \cup {t}
  /\ duration_from_previous_' =
       [duration_from_previous_ EXCEPT ![t] = duration_from_previous_[other]]
  /\ IF deepcopy
       THEN LET c == CloneAll(heap, waypoints_[other]) IN
              /\ heap' = c.heap
              /\ waypoints_' = [waypoints_ EXCEPT ![t] = c.wps]
       ELSE /\ heap' = heap
            /\ waypoints_' = [waypoints_ EXCEPT ![t] = waypoints_[other]]
  /\ last' = Copy(IF deepcopy THEN "RobotTrajectory(other, true)"
                              ELSE "RobotTrajectory(other, false)", t, other)

\* a change of the state of waypoint index made through getWayPointPtr(index)
ModifyWayPoint(t, index, state) ==
  /\ t \in constructed
  /\ index < Len(waypoints_[t])
  /\ state # heap[getWayPointPtr(t, index)]
  /\ heap' = [heap EXCEPT ![getWayPointPtr(t, index)] = state]
  /\ UNCHANGED <<constructed, waypoints_, duration_from_previous_>>
  /\ last' = NoCopy

Next ==
  \/ \E t \in Traj : Construct(t)
  \/ \E t \in Traj : Destroy(t)
  \/ \E t \in Traj, state \in RobotState, dt \in Durations : addSuffixWayPoint(t, state, dt)
  \/ \E t \in Traj, state \in Addr, dt \in Durations : addSuffixWayPointPtr(t, state, dt)
  \/ \E t \in Traj, state \in RobotState, dt \in Durations : addPrefixWayPoint(t, state, dt)
  \/ \E t \in Traj, state \in Addr, dt \in Durations : addPrefixWayPointPtr(t, state, dt)
  \/ \E t \in Traj, index \in Indices, state \in RobotState, dt \in Durations :
        insertWayPoint(t, index, state, dt)
  \/ \E t \in Traj, index \in Indices, state \in Addr, dt \in Durations :
        insertWayPointPtr(t, index, state, dt)
  \/ \E t \in Traj, index \in Indices, value \in Durations :
        setWayPointDurationFromPrevious(t, index, value)
  \/ \E t \in Traj : clear(t)
  \/ \E t \in Traj, other \in Traj : OperatorAssign(t, other)
  \/ \E t \in Traj, other \in Traj, deepcopy \in BOOLEAN : CopyConstruct(t, other, deepcopy)
  \/ \E t \in Traj, index \in Indices, state \in RobotState : ModifyWayPoint(t, index, state)

Spec == Init /\ [][Next]_vars

\* Trajectories that are built at their end with one duration, copied, assigned
\* and modified.
NextCopy ==
  \/ \E t \in Traj : Construct(t)
  \/ \E t \in Traj : Destroy(t)
  \/ \E t \in Traj, state \in RobotState, dt \in {MaxDur} : addSuffixWayPoint(t, state, dt)
  \/ \E t \in Traj : clear(t)
  \/ \E t \in Traj, other \in Traj : OperatorAssign(t, other)
  \/ \E t \in Traj, other \in Traj, deepcopy \in BOOLEAN : CopyConstruct(t, other, deepcopy)
  \/ \E t \in Traj, index \in Indices, state \in RobotState : ModifyWayPoint(t, index, state)

SpecCopy == Init /\ [][NextCopy]_vars

TypeOK ==
  /\ constructed \subseteq Traj
  /\ \A t \in Traj : Len(waypoints_[t]) <= MaxLen /\ Range(waypoints_[t]) \subseteq Addr
  /\ \A t \in Traj : Len(duration_from_previous_[t]) <= MaxLen
  /\ \A a \in Addr : heap[a] \in RobotState \cup {NoState}
  /\ \A a \in Addr : (heap[a] # NoState) <=> (a \in Stored)

\* ---- properties ---------------------------------------------------------------

\* C1: in every reachable state the number of stored waypoints equals the
\* number of stored durations-from-previous, for every trajectory, so that the
\* assertion of size(), begin() and end() cannot fail.
C1_SizesAgree == \A t \in Traj : SizeAssertion(t)

\* What addSuffixWayPoint promises of a step on a trajectory t of n waypoints
\* with duration dt: one more waypoint, dt is the duration of the new last
\* waypoint, and what was stored before keeps its index and value.
AddSuffixPost(t, dt, n) ==
  /\ getWayPointCount(t)' = n + 1
  /\ getWayPointDurationFromPrevious(t, n)' = dt
  /\ \A i \in 0..(n - 1) :
       /\ getWayPointPtr(t, i)' = getWayPointPtr(t, i)
       /\ getWayPoint(t, i)' = getWayPoint(t, i)
  /\ \A i \in 0..(Len(duration_from_previous_[t]) - 1) :
       getWayPointDurationFromPrevious(t, i)' = getWayPointDurationFromPrevious(t, i)

\* C2: every addSuffixWayPoint(state, dt) step, of either overload, grows the
\* waypoint count by exactly 1, makes the given state the new last waypoint,
\* makes getWayPointDurationFromPrevious(new last index) equal to dt, and keeps
\* every previously stored waypoint and duration at its index with its value.
C2_AddSuffixContract ==
  [][\A t \in Traj, dt \in Durations, n \in Indices :
       (n = getWayPointCount(t)) =>
         /\ \A state \in RobotState :
              addSuffixWayPoint(t, state, dt) =>
                (AddSuffixPost(t, dt, n) /\ getWayPoint(t, n)' = state)
         /\ \A state \in Addr :
              addSuffixWayPointPtr(t, state, dt) =>
                (AddSuffixPost(t, dt, n) /\ getWayPointPtr(t, n)' = state)
    ]_vars

\* the last call was a copy of waypoints by pointer, of other into t
ShallowCopied(t, other) ==
  /\ last.op \in {"operator=", "RobotTrajectory(other, false)"}
  /\ last.t = t
  /\ last.other = other

\* the last call was a copy of waypoints by value, of other into t
DeepCopied(t, other) ==
  /\ last.op = "RobotTrajectory(other, true)"
  /\ last.t = t
  /\ last.other = other

\* C3: after operator= or the copy constructor with deepcopy = false, the
\* target has the waypoint count and the durations of the source and waypoint i
\* of the target is the same object as waypoint i of the source, for every i;
\* and a change of that state made through getWayPointPtr(i) of either
\* trajectory is what getWayPoint(i) of both of them then returns.
C3_ShallowCopyShares ==
  /\ [](\A t \in Traj, other \in Traj :
          ShallowCopied(t, other) =>
            /\ getWayPointCount(t) = getWayPointCount(other)
            /\ duration_from_previous_[t] = duration_from_previous_[other]
            /\ \A i \in 0..(getWayPointCount(other) - 1) :
                 getWayPointPtr(t, i) = getWayPointPtr(other, i))
  /\ [][\A t \in Traj, other \in Traj, m \in Traj, index \in Indices, state \in RobotState :
          (ShallowCopied(t, other) /\ m \in {t, other} /\ ModifyWayPoint(m, index, state)) =>
            /\ getWayPoint(t, index)' = state
            /\ getWayPoint(other, index)' = state
       ]_vars

\* C3 witness: a trajectory of two different waypoints has just been copied by
\* pointer into another trajectory.
C3_Witness ==
  \E t \in Traj, other \in Traj :
    /\ ShallowCopied(t, other)
    /\ t # other
    /\ getWayPointCount(other) = 2
    /\ getWayPointPtr(other, 0) # getWayPointPtr(other, 1)
    /\ getWayPoint(other, 0) # getWayPoint(other, 1)

\* C4: after the copy constructor with deepcopy = true, the copy has the
\* waypoint count of the original, equal state values at every index and equal
\* durations; and a change of a waypoint state made through either trajectory
\* leaves every waypoint state of the other one as it was.
C4_DeepCopyIsolates ==
  /\ [](\A t \in Traj, other \in Traj :
          DeepCopied(t, other) =>
            /\ getWayPointCount(t) = getWayPointCount(other)
            /\ duration_from_previous_[t] = duration_from_previous_[other]
            /\ \A i \in 0..(getWayPointCount(other) - 1) :
                 getWayPoint(t, i) = getWayPoint(other, i))
  /\ [][\A t \in Traj, other \in Traj, index \in Indices, state \in RobotState :
          /\ (DeepCopied(t, other) /\ ModifyWayPoint(t, index, state)) =>
                \A j \in 0..(getWayPointCount(other) - 1) :
                  getWayPoint(other, j)' = getWayPoint(other, j)
          /\ (DeepCopied(t, other) /\ ModifyWayPoint(other, index, state)) =>
                \A j \in 0..(getWayPointCount(t) - 1) :
                  getWayPoint(t, j)' = getWayPoint(t, j)
       ]_vars

\* C4 witness: a trajectory of two waypoints with different states has just
\* been copied by value, into objects of its own.
C4_Witness ==
  \E t \in Traj, other \in Traj :
    /\ DeepCopied(t, other)
    /\ getWayPointCount(other) = 2
    /\ getWayPoint(other, 0) # getWayPoint(other, 1)
    /\ getWayPointDurationFromPrevious(t, 1) = MaxDur
    /\ Range(waypoints_[t]) \cap Range(waypoints_[other]) = {}

====
